---- MODULE Spec2Model ----
(***************************************************************************)
(* Model of src/scripts.js: the view controller of a client-side book      *)
(* catalogue (paginated, filterable list of previews, three overlays and a *)
(* colour theme).  Every event handler runs to completion, so each handler *)
(* is one action.                                                          *)
(*                                                                         *)
(* Strings that the code inspects character by character (titles and the   *)
(* title filter) are sequences of character codes; identifiers that the    *)
(* code only compares for equality are opaque values.                      *)
(***************************************************************************)
EXTENDS Integers, Sequences, FiniteSets, TLC

\* ------------------------------------------------------------------ bounds
\* The book list the program starts with has no book, or between MinBooks
\* and MaxBooks books.
MinBooks == 108
MaxBooks == 109
\* "Show more" is clicked only while page is below this cap.
MaxPage == 4

\* ------------------------------------------------------- program constants
\* data.js, imported at line 1 (the spec's page size).
BOOKS_PER_PAGE == 36
\* The literal of lines 45 and 46 of createPreviewsFragment.
WindowLiteral == 36

\* --------------------------------------------------------- string helpers
Min(a, b) == IF a < b THEN a ELSE b
Max(a, b) == IF a > b THEN a ELSE b

\* String.prototype.toLowerCase on character codes: A..Z (65..90) map to
\* a..z, every other code is kept.
ToLowerCase(s) ==
    [i \in 1..Len(s) |-> IF s[i] \in 65..90 THEN s[i] + 32 ELSE s[i]]

\* White space removed by String.prototype.trim: tab, line feed, vertical
\* tab, form feed, carriage return, space.
IsWhiteSpace(c) == c \in {9, 10, 11, 12, 13, 32}

\* String.prototype.trim: leading and trailing white space removed.
Trim(s) ==
    LET keep == {i \in 1..Len(s) : ~IsWhiteSpace(s[i])}
    IN  IF keep = {} THEN <<>>
        ELSE LET first == CHOOSE i \in keep : \A j \in keep : i <= j
                 last  == CHOOSE i \in keep : \A j \in keep : j <= i
             IN  SubSeq(s, first, last)

\* String.prototype.includes: sub occurs in s as a contiguous run.
StringIncludes(s, sub) ==
    \E k \in 0..(Len(s) - Len(sub)) : SubSeq(s, k + 1, k + Len(sub)) = sub

\* Array.prototype.includes on a genre list.
ArrayIncludes(arr, x) == \E k \in 1..Len(arr) : arr[k] = x

\* Array.prototype.slice(start, end): a negative index counts from the
\* end, both indices are clamped into 0..length, an empty range when the
\* end does not lie beyond the start.
Slice(arr, start, end) ==
    LET len   == Len(arr)
        from  == IF start < 0 THEN Max(len + start, 0) ELSE Min(start, len)
        to    == IF end < 0 THEN Max(len + end, 0) ELSE Min(end, len)
    IN  SubSeq(arr, from + 1, to)

\* ------------------------------------------------------------ book store
\* Titles of the catalogue, as character codes:
\*   "The K", "BatHE", "Dune"
TitleTable ==
    << <<84, 104, 101, 32, 75>>,
       <<66, 97, 116, 72, 69>>,
       <<68, 117, 110, 101>> >>

\* A calendar date as the text "YYYY-MM-DD", in character codes.
IsoDate(y, m, d) ==
    << 48 + (y \div 1000), 48 + ((y \div 100) % 10), 48 + ((y \div 10) % 10),
       48 + (y % 10), 45, 48 + (m \div 10), 48 + (m % 10), 45,
       48 + (d \div 10), 48 + (d % 10) >>

\* The years of publication of the books of data.js, and the year of
\* book i.
PublishedYears == << 1990, 1991, 1992 >>
PublishedYear(i) == PublishedYears[(i % 3) + 1]

\* The publication dates of the books of data.js.
DateTable ==
    << IsoDate(PublishedYears[1], 6, 15), IsoDate(PublishedYears[2], 6, 15),
       IsoDate(PublishedYears[3], 6, 15) >>

\* The book objects of data.js.  An array holds references to them, and a
\* reference is written as the position i the object has in the imported
\* list; Book(i) is the object: unique identifier, title, author
\* identifier, genre list, image reference, publication date and
\* description.  No line of scripts.js assigns to a field of a
\* book.
BookRecord(i) ==
    [ id          |-> i,
      title       |-> TitleTable[(i % 3) + 1],
      author      |-> IF i % 2 = 1 THEN "a1" ELSE "a2",
      genres      |-> IF i % 5 = 0 THEN <<"g2">>
                      ELSE IF i % 5 = 1 THEN <<"g2", "g1">>
                      ELSE <<"g1">>,
      image       |-> IF i % 2 = 1 THEN "cover-odd.jpg" ELSE "cover-even.jpg",
      published   |-> DateTable[(i % 3) + 1],
      description |-> IF i % 3 = 0 THEN "about-0"
                      ELSE IF i % 3 = 1 THEN "about-1" ELSE "about-2" ]

\* The book objects, by reference.
BookTable == [i \in 1..MaxBooks |-> BookRecord(i)]
Book(i) == BookTable[i]

\* authors of data.js: author identifier to display name.
authors == [a1 |-> "Author One", a2 |-> "Author Two"]

\* css of data.js: theme name to its colour pair.
css ==
    [ day   |-> [dark |-> "10, 10, 20", light |-> "255, 255, 255"],
      night |-> [dark |-> "255, 255, 255", light |-> "10, 10, 20"] ]

\* The imported list of n books, as references.
BookList(n) == [i \in 1..n |-> i]

\* The lengths of the book lists the program is started with.
BookCounts == {0} \cup (MinBooks..MaxBooks)

\* The author and genre selectors and the title texts a search form is
\* submitted with: "", " tHe " (padded, mixed case), "z".
FormTitles == { <<>>, <<32, 116, 72, 101, 32>>, <<122>> }
FormAuthors == {"any", "a1"}
FormGenres == {"any", "g1"}
\* Object.fromEntries(new FormData(form)) of the search form.
SearchForms ==
    [title : FormTitles, author : FormAuthors, genre : FormGenres]

\* ------------------------------------------------------------------ state
VARIABLES
    books,            \* data.js: the imported book list
    booksDefined,     \* FALSE when the import yields no book list
    matches,          \* line 4: the current result set
    page,             \* line 5: the current page
    phase,            \* "loading" while the module body runs, then "ready"
                      \* or, after the throw of line 8, "aborted"
    listeners,        \* lines 235-251: the registered event listeners
    listItems,        \* html.list.items: the rendered previews, in order
    listButton,       \* html.list.button: disabled flag and remaining text
    listMessage,      \* html.list.message carries class list__message_show
    searchOverlay,    \* html.search.overlay.open
    settingsOverlay,  \* html.settings.overlay.open
    listOverlay,      \* html.list.overlay.open
    lastSlice,        \* arguments and size of the last matches.slice call
    lastSubmit,       \* the form data of the last search submission, if any
    lastTheme,        \* the theme of the last settings submission, if any
    listDetail,       \* html.list.blur/image/title/subtitle/description
    rootStyle,        \* --color-dark and --color-light of the root element
    outcome           \* how the last run of the module body or of a handler
                      \* ended: "" (nothing has run), "done" (at its last
                      \* line), "returned" (at the return of line 148), or
                      \* the exception it threw

vars == << books, booksDefined, matches, page, phase, listeners, listItems,
           listButton, listMessage, searchOverlay, settingsOverlay,
           listOverlay, lastSlice, lastSubmit, lastTheme, listDetail,
           rootStyle, outcome >>

\* The detail view and the colour properties.
presentation == << listDetail, rootStyle >>

overlays == << searchOverlay, settingsOverlay, listOverlay >>

\* ------------------------------------------------------------- rendering
\* view.js createPreview: the display unit of one book, written as the
\* identifier it carries in its data-preview attribute.
createPreview(book) == book.id

\* Variant of updateRemainingButton: the count of line 22, which leaves the
\* page out, is the one displayed.
updateRemainingButton_CountOfLine22(m, p) ==
    LET remainingBooksCount == Len(m) - BOOKS_PER_PAGE
        remainingBooksDisplay ==
            IF remainingBooksCount > 0 THEN remainingBooksCount ELSE 0
    IN  [ disabled  |-> ~(remainingBooksCount > 0),
          remaining |-> remainingBooksDisplay ]

\* Lines 18-29: the state the "show more" button is left in for result set
\* m and page p (the innerText of line 22 is overwritten by line 25).
updateRemainingButton(m, p) ==
    LET remainingBooksCount == Len(m) - p * BOOKS_PER_PAGE
        remainingBooksDisplay ==
            IF remainingBooksCount > 0 THEN remainingBooksCount ELSE 0
    IN  [ disabled  |-> ~(remainingBooksCount > 0),
          remaining |-> remainingBooksDisplay ]

\* Lines 41-56: the slice bounds after the adjustment of lines 45-48, the
\* extracted books and the fragment of their previews.
createPreviewsFragment(m, startIndex, endIndex) ==
    LET clamp == startIndex + WindowLiteral > Len(m)
        start == IF clamp THEN startIndex - WindowLiteral ELSE startIndex
        end   == IF clamp THEN Len(m) ELSE endIndex
        extractedBooks == Slice(m, start, end)
    IN  [ start    |-> start,
          end      |-> end,
          fragment |-> [k \in 1..Len(extractedBooks) |->
                            createPreview(Book(extractedBooks[k]))] ]

\* range of line 6, the default slice bounds of createPreviewsFragment.
range == <<0, BOOKS_PER_PAGE>>

\* What one render pass records of its slice call.
SliceRecord(f) ==
    [start |-> f.start, end |-> f.end, extracted |-> Len(f.fragment)]

\* --------------------------------------------------------------- filter
\* Variant of titleMatch: the book's title is not lower-cased.
titleMatch_CaseSensitive(book, filtersTitle) ==
    filtersTitle = <<>> \/ StringIncludes(book.title, filtersTitle)

\* Lines 204-211: the three guard clauses of the filter loop.
titleMatch(book, filtersTitle) ==
    filtersTitle = <<>> \/ StringIncludes(ToLowerCase(book.title), filtersTitle)
authorMatch(book, filtersAuthor) ==
    filtersAuthor = "any" \/ book.author = filtersAuthor
genreMatch(book, filtersGenre) ==
    filtersGenre = "any" \/ ArrayIncludes(book.genres, filtersGenre)

\* Lines 204-213: whether the loop body pushes the book.
Passes(book, filtersTitle, filtersAuthor, filtersGenre) ==
    /\ titleMatch(book, filtersTitle)
    /\ authorMatch(book, filtersAuthor)
    /\ genreMatch(book, filtersGenre)

\* Line 197: the title text the loop compares with.
NormalizeTitle(text) == ToLowerCase(Trim(text))

\* Variant of FilterBooks: each passing book is put in front of result
\* (unshift for push).
FilterBooks_Unshift(bs, filters) ==
    LET filtersTitle == NormalizeTitle(filters.title)
        pushed == SelectSeq(bs, LAMBDA singleBook :
                     Passes(Book(singleBook), filtersTitle, filters.author,
                            filters.genre))
    IN  [k \in 1..Len(pushed) |-> pushed[Len(pushed) + 1 - k]]

\* The value undefined; no title, author or genre equals it.
undefined == "<undefined>"

\* obj[key] of an object made by Object.fromEntries: undefined when the
\* form data has no entry of that name.
Field(obj, key) == IF key \in DOMAIN obj THEN obj[key] ELSE undefined

\* Lines 193-216: result after the loop over bs, which pushes the books
\* that pass in the order of bs; filters carries a title.
FilterBooks(bs, filters) ==
    LET filtersTitle == NormalizeTitle(filters.title)
        filtersAuthor == Field(filters, "author")
        filtersGenre == Field(filters, "genre")
    IN  SelectSeq(bs, LAMBDA singleBook :
            Passes(Book(singleBook), filtersTitle, filtersAuthor, filtersGenre))

\* ---------------------------------------------------------------- Init
\* The state after lines 1-6: the data imported, matches aliasing books,
\* page 1, the document as the markup leaves it.
AllListeners ==
    { "search.button:click", "search.cancel:click", "settings.button:click",
      "settings.cancel:click", "list.close:click", "list.button:click",
      "list.items:click", "settings.form:submit", "search.form:submit" }

Init ==
    /\ booksDefined \in BOOLEAN
    /\ \E n \in BookCounts :
          books = IF booksDefined THEN BookList(n) ELSE <<>>
    /\ matches = books
    /\ page = 1
    /\ phase = "loading"
    /\ listeners = {}
    /\ listItems = <<>>
    /\ listButton = [disabled |-> FALSE, remaining |-> 0]
    /\ listMessage = FALSE
    /\ searchOverlay = FALSE
    /\ settingsOverlay = FALSE
    /\ listOverlay = FALSE
    /\ lastSlice = [start |-> 0, end |-> 0, extracted |-> 0]
    /\ lastSubmit = <<>>
    /\ lastTheme = <<>>
    /\ listDetail = <<>>
    /\ rootStyle = [dark |-> "", light |-> ""]
    /\ outcome = ""

\* ------------------------------------------------------------- actions
\* Variant of Startup: the listeners are registered before the test of
\* line 8.
Startup_ListenersFirst ==
    /\ phase = "loading"
    /\ listeners' = AllListeners
    /\ IF ~booksDefined /\ ~booksDefined
         THEN /\ phase' = "aborted"
              /\ outcome' = "Source required"
              /\ UNCHANGED << listItems, listButton, lastSlice >>
         ELSE LET f == createPreviewsFragment(matches, range[1], range[2])
              IN  /\ listItems' = listItems \o f.fragment
                  /\ listButton' = updateRemainingButton(matches, page)
                  /\ lastSlice' = SliceRecord(f)
                  /\ phase' = "ready"
                  /\ outcome' = "done"
    /\ UNCHANGED << books, booksDefined, matches, page, listMessage, overlays,
                    lastSubmit, presentation, lastTheme >>

\* Lines 8-62 and 235-251: the rest of the module body.  Line 8 throws
\* when books is falsy and no array (its two conjuncts coincide on the
\* values modelled: a list or nothing); otherwise the first window is
\* rendered and the nine listeners are registered.  The test of line 9
\* never throws: range is the array literal of line 6.
Startup ==
    /\ phase = "loading"
    /\ IF ~booksDefined /\ ~booksDefined
         THEN /\ phase' = "aborted"
              /\ outcome' = "Source required"
              /\ UNCHANGED << listeners, listItems, listButton, lastSlice >>
         ELSE LET f == createPreviewsFragment(matches, range[1], range[2])
              IN  /\ listItems' = listItems \o f.fragment
                  /\ listButton' = updateRemainingButton(matches, page)
                  /\ lastSlice' = SliceRecord(f)
                  /\ listeners' = AllListeners
                  /\ phase' = "ready"
                  /\ outcome' = "done"
    /\ UNCHANGED << books, booksDefined, matches, page, listMessage, overlays,
                    lastSubmit, presentation, lastTheme >>

\* Lines 67-70.
handleSearchButtonClick ==
    /\ "search.button:click" \in listeners
    /\ searchOverlay' = TRUE
    /\ UNCHANGED << books, booksDefined, matches, page, phase, listeners,
                    listItems, listButton, listMessage, settingsOverlay,
                    listOverlay, lastSlice, lastSubmit, presentation, lastTheme >>
    /\ outcome' = "done"

\* Variant of handleSearchCancelClick: the cancel button of the search
\* overlay closes the settings overlay as well.
handleSearchCancelClick_ClosesSettings ==
    /\ "search.cancel:click" \in listeners
    /\ searchOverlay' = FALSE
    /\ settingsOverlay' = FALSE
    /\ UNCHANGED << books, booksDefined, matches, page, phase, listeners,
                    listItems, listButton, listMessage,
                    listOverlay, lastSlice, lastSubmit, presentation, lastTheme >>
    /\ outcome' = "done"

\* Lines 75-78.
handleSearchCancelClick ==
    /\ "search.cancel:click" \in listeners
    /\ searchOverlay' = FALSE
    /\ UNCHANGED << books, booksDefined, matches, page, phase, listeners,
                    listItems, listButton, listMessage, settingsOverlay,
                    listOverlay, lastSlice, lastSubmit, presentation, lastTheme >>
    /\ outcome' = "done"

\* Lines 83-85.
handleSettingsButtonClick ==
    /\ "settings.button:click" \in listeners
    /\ settingsOverlay' = TRUE
    /\ UNCHANGED << books, booksDefined, matches, page, phase, listeners,
                    listItems, listButton, listMessage, searchOverlay,
                    listOverlay, lastSlice, lastSubmit, presentation, lastTheme >>
    /\ outcome' = "done"

\* Lines 90-92.
handleSettingsCancelClick ==
    /\ "settings.cancel:click" \in listeners
    /\ settingsOverlay' = FALSE
    /\ UNCHANGED << books, booksDefined, matches, page, phase, listeners,
                    listItems, listButton, listMessage, searchOverlay,
                    listOverlay, lastSlice, lastSubmit, presentation, lastTheme >>
    /\ outcome' = "done"

\* Lines 97-99.
handleBookPreviewCloseClick ==
    /\ "list.close:click" \in listeners
    /\ listOverlay' = FALSE
    /\ UNCHANGED << books, booksDefined, matches, page, phase, listeners,
                    listItems, listButton, listMessage, searchOverlay,
                    settingsOverlay, lastSlice, lastSubmit, presentation, lastTheme >>
    /\ outcome' = "done"

\* Variant of handleListButtonClick: the window starts at
\* (page - 1) * BOOKS_PER_PAGE for the incremented page.
handleListButtonClick_WindowOfPage ==
    /\ "list.button:click" \in listeners
    /\ page < MaxPage
    /\ page' = page + 1
    /\ LET f == createPreviewsFragment(matches, (page' - 1) * BOOKS_PER_PAGE,
                                       page' * BOOKS_PER_PAGE)
       IN  /\ listItems' = listItems \o f.fragment
           /\ lastSlice' = SliceRecord(f)
    /\ listButton' = updateRemainingButton(matches, page')
    /\ UNCHANGED << books, booksDefined, matches, phase, listeners,
                    listMessage, overlays, lastSubmit, presentation, lastTheme >>
    /\ outcome' = "done"

\* Lines 104-107.  The handler itself tests nothing: it runs whenever the
\* click event is dispatched.
handleListButtonClick ==
    /\ "list.button:click" \in listeners
    /\ page < MaxPage
    /\ page' = page + 1
    /\ LET f == createPreviewsFragment(matches, page' * BOOKS_PER_PAGE,
                                       (page' + 1) * BOOKS_PER_PAGE)
       IN  /\ listItems' = listItems \o f.fragment
           /\ lastSlice' = SliceRecord(f)
    /\ listButton' = updateRemainingButton(matches, page')
    /\ UNCHANGED << books, booksDefined, matches, phase, listeners,
                    listMessage, overlays, lastSubmit, presentation, lastTheme >>
    /\ outcome' = "done"

\* Variant of messageShown: the class is added and never removed.
messageShown_NeverRemoved(before, result) ==
    IF Len(result) < 1 THEN TRUE ELSE before

\* Lines 218-222: whether the message carries class list__message_show
\* after the filter loop, given whether it carried it before.
messageShown(before, result) ==
    IF Len(result) < 1 THEN TRUE ELSE FALSE

\* Variant of handleFilterFormSubmit: the container is not cleared (line
\* 224 left out).
handleFilterFormSubmit_NotCleared(filters) ==
    /\ "search.form:submit" \in listeners
    /\ lastSubmit' = <<filters>>
    /\ page' = 1
    /\ searchOverlay' = FALSE
    /\ outcome' = "done"
    /\ UNCHANGED << books, booksDefined, phase, listeners, settingsOverlay,
                    listOverlay, presentation, lastTheme >>
    /\ matches' = FilterBooks(books, filters)
    /\ listMessage' = messageShown(listMessage, matches')
    /\ LET f == createPreviewsFragment(matches', range[1], range[2])
       IN  /\ listItems' = listItems \o f.fragment
           /\ lastSlice' = SliceRecord(f)
    /\ listButton' = updateRemainingButton(matches', page')

\* Variant of handleFilterFormSubmit: page is not set by the submission.
handleFilterFormSubmit_PageKept(filters) ==
    /\ "search.form:submit" \in listeners
    /\ lastSubmit' = <<filters>>
    /\ page' = page
    /\ UNCHANGED << books, booksDefined, phase, listeners, settingsOverlay,
                    listOverlay, presentation, lastTheme >>
    /\ IF "title" \in DOMAIN filters
         THEN /\ searchOverlay' = FALSE
              /\ outcome' = "done"
              /\ matches' = FilterBooks(books, filters)
              /\ listMessage' = messageShown(listMessage, matches')
              /\ LET f == createPreviewsFragment(matches', range[1], range[2])
                 IN  /\ listItems' = f.fragment
                     /\ lastSlice' = SliceRecord(f)
              /\ listButton' = updateRemainingButton(matches', page')
         ELSE /\ outcome' = "TypeError"
              /\ UNCHANGED << matches, listItems, listButton, listMessage,
                              lastSlice, searchOverlay >>

\* Lines 186-233.  When the form data has no title, filters.title is
\* undefined and line 197 throws a TypeError, after page has been set by
\* line 195 and before anything else is written.
handleFilterFormSubmit(filters) ==
    /\ "search.form:submit" \in listeners
    /\ lastSubmit' = <<filters>>
    /\ page' = 1
    /\ UNCHANGED << books, booksDefined, phase, listeners, settingsOverlay,
                    listOverlay, presentation, lastTheme >>
    /\ IF "title" \in DOMAIN filters
         THEN /\ searchOverlay' = FALSE
              /\ outcome' = "done"
              /\ matches' = FilterBooks(books, filters)
              /\ listMessage' = messageShown(listMessage, matches')
              /\ LET f == createPreviewsFragment(matches', range[1], range[2])
                 IN  /\ listItems' = f.fragment
                     /\ lastSlice' = SliceRecord(f)
              /\ listButton' = updateRemainingButton(matches', page')
         ELSE /\ outcome' = "TypeError"
              /\ UNCHANGED << matches, listItems, listButton, listMessage,
                              lastSlice, searchOverlay >>

\* ------------------------------------------------------- detail overlay
\* The dataset.preview of a node of the event path: <<>> when the node has
\* no such attribute (line 131 yields undefined), else <<identifier>>.
NoPreview == <<>>

\* An identifier that no book carries.
UnknownIds == {0}

\* Lines 140-145: the first book of bs whose id is previewId, as <<book>>,
\* or <<>> when the scan ends without one.
FindBook(bs, previewId) ==
    LET hits == {j \in 1..Len(bs) : Book(bs[j]).id = previewId}
    IN  IF hits = {} THEN <<>>
        ELSE <<bs[CHOOSE j \in hits : \A h \in hits : j <= h]>>

\* Lines 124-146: active after the loop over the event path from node k
\* on: nodes without preview identifier are skipped, the loop stops at the
\* first node whose identifier is that of a book.
RECURSIVE ActiveFrom(_, _, _)
ActiveFrom(bs, pathArray, k) ==
    IF k > Len(pathArray) THEN <<>>
    ELSE LET previewId == pathArray[k]
         IN  IF previewId = NoPreview THEN ActiveFrom(bs, pathArray, k + 1)
             ELSE LET found == FindBook(bs, previewId[1])
                  IN  IF found # <<>> THEN found
                      ELSE ActiveFrom(bs, pathArray, k + 1)

\* new Date(published).getFullYear() of line 155, for a date text
\* "YYYY-MM-DD": the number its first four digits write.
GetFullYear(published) ==
    (published[1] - 48) * 1000 + (published[2] - 48) * 100
        + (published[3] - 48) * 10 + (published[4] - 48)

\* Variant of DetailOf: the subtitle carries the author identifier.
DetailOf_AuthorId(active) ==
    [ blur        |-> active.image,
      image       |-> active.image,
      title       |-> active.title,
      subtitle    |-> <<active.author, GetFullYear(active.published)>>,
      description |-> active.description ]

\* Lines 150-156: what the detail view shows for book active; the subtitle
\* `${authors[author]} (${year})` is written as the pair of its two parts.
DetailOf(active) ==
    [ blur        |-> active.image,
      image       |-> active.image,
      title       |-> active.title,
      subtitle    |-> <<authors[active.author], GetFullYear(active.published)>>,
      description |-> active.description ]

\* Variant of handleListItemClick: the overlay is opened before the test
\* of line 148.
handleListItemClick_OpensAlways(pathArray) ==
    /\ "list.items:click" \in listeners
    /\ UNCHANGED << books, booksDefined, matches, page, phase, listeners,
                    listItems, listButton, listMessage, searchOverlay,
                    settingsOverlay, lastSlice, lastSubmit, lastTheme,
                    rootStyle >>
    /\ listOverlay' = TRUE
    /\ \E active \in {ActiveFrom(books, pathArray, 1)} :
          IF active = <<>>
            THEN /\ outcome' = "returned"
                 /\ UNCHANGED listDetail
            ELSE /\ listDetail' = <<DetailOf(Book(active[1]))>>
                 /\ outcome' = "done"

\* Lines 112-159, for the event path pathArray (dataset.preview of each
\* node, innermost first).
handleListItemClick(pathArray) ==
    /\ "list.items:click" \in listeners
    /\ UNCHANGED << books, booksDefined, matches, page, phase, listeners,
                    listItems, listButton, listMessage, searchOverlay,
                    settingsOverlay, lastSlice, lastSubmit, lastTheme,
                    rootStyle >>
    /\ \E active \in {ActiveFrom(books, pathArray, 1)} :
          IF active = <<>>
            THEN /\ outcome' = "returned"
                 /\ UNCHANGED << listDetail, listOverlay >>
            ELSE /\ listDetail' = <<DetailOf(Book(active[1]))>>
                 /\ listOverlay' = TRUE
                 /\ outcome' = "done"

\* The event path of a click inside the k-th rendered preview: an inner
\* element, the preview element, the container.
PathOfPreview(k) == <<NoPreview, <<listItems[k]>>, NoPreview>>

\* The event paths of the clicks on the list, for the positions of the
\* rendered previews that are clicked: on the container itself, on an
\* element carrying an identifier of no book (outside the previews, or
\* inside the first clicked preview), and inside a rendered preview.
ClickPathsAt(positions) ==
    LET rendered == positions \cap (1..Len(listItems))
    IN  {<<NoPreview>>}
            \cup {<<<<u>>, NoPreview>> : u \in UnknownIds}
            \cup {<<<<u>>>> \o PathOfPreview(k) :
                      u \in UnknownIds, k \in rendered \cap {1}}
            \cup {PathOfPreview(k) : k \in rendered}

\* The clicks on the list: the first rendered preview is the one clicked.
ClickPaths == ClickPathsAt({1})

\* ---------------------------------------------------------------- theme
\* The theme names a settings form is submitted with.
FormThemes == {"day", "night"}

\* Names of properties that css, an object literal, inherits from
\* Object.prototype: css[name] is a function or an object without dark
\* and light.
InheritedNames == {"constructor", "toString"}

\* CSSStyleDeclaration.setProperty of a custom property with the value
\* undefined: the value is converted to the text "undefined" and set.
UndefinedText == "undefined"

\* Variant of updateDarkLightMode: the two colours of a theme of the table
\* are set the other way round.
updateDarkLightMode_Swapped(theme) ==
    /\ "settings.form:submit" \in listeners
    /\ lastTheme' = <<theme>>
    /\ IF theme \in DOMAIN css
         THEN /\ rootStyle' = [dark |-> css[theme].light,
                               light |-> css[theme].dark]
              /\ settingsOverlay' = FALSE
              /\ outcome' = "done"
         ELSE IF theme \in InheritedNames
         THEN /\ rootStyle' = [dark |-> UndefinedText, light |-> UndefinedText]
              /\ settingsOverlay' = FALSE
              /\ outcome' = "done"
         ELSE /\ outcome' = "TypeError"
              /\ UNCHANGED << rootStyle, settingsOverlay >>
    /\ UNCHANGED << books, booksDefined, matches, page, phase, listeners,
                    listItems, listButton, listMessage, searchOverlay,
                    listOverlay, lastSlice, lastSubmit, listDetail >>

\* Lines 164-181, for the theme of the submitted form (undefined when the
\* form data has none).  For a theme of the table the pair is set and the
\* overlay closed.  For a name css inherits, css[theme].dark and
\* css[theme].light are undefined: both properties are set to the text
\* "undefined" and the overlay is closed.  For any other name css[theme]
\* is undefined, and line 178 throws a TypeError before anything is
\* written.
updateDarkLightMode(theme) ==
    /\ "settings.form:submit" \in listeners
    /\ lastTheme' = <<theme>>
    /\ IF theme \in DOMAIN css
         THEN /\ rootStyle' = [dark |-> css[theme].dark,
                               light |-> css[theme].light]
              /\ settingsOverlay' = FALSE
              /\ outcome' = "done"
         ELSE IF theme \in InheritedNames
         THEN /\ rootStyle' = [dark |-> UndefinedText, light |-> UndefinedText]
              /\ settingsOverlay' = FALSE
              /\ outcome' = "done"
         ELSE /\ outcome' = "TypeError"
              /\ UNCHANGED << rootStyle, settingsOverlay >>
    /\ UNCHANGED << books, booksDefined, matches, page, phase, listeners,
                    listItems, listButton, listMessage, searchOverlay,
                    listOverlay, lastSlice, lastSubmit, listDetail >>

Next ==
    \/ Startup
    \/ handleSearchButtonClick
    \/ handleSearchCancelClick
    \/ handleSettingsButtonClick
    \/ handleSettingsCancelClick
    \/ handleBookPreviewCloseClick
    \/ handleListButtonClick
    \/ \E filters \in SearchForms : handleFilterFormSubmit(filters)
    \/ \E pathArray \in ClickPaths : handleListItemClick(pathArray)
    \/ \E theme \in FormThemes : updateDarkLightMode(theme)

Spec == Init /\ [][Next]_vars

\* ------------------------------------------------- clicks on the list
\* The clicks on the list with the first, the second and the last rendered
\* preview clicked.
DetailClickPaths == ClickPathsAt({1, 2, Len(listItems)})

\* The handlers that write what handleListItemClick reads or writes, or
\* the list whose previews are clicked.
NextDetail ==
    \/ Startup
    \/ handleBookPreviewCloseClick
    \/ handleListButtonClick
    \/ \E filters \in SearchForms : handleFilterFormSubmit(filters)
    \/ \E pathArray \in DetailClickPaths : handleListItemClick(pathArray)

SpecDetail == Init /\ [][NextDetail]_vars

\* ----------------------------------------------------- malformed forms
\* Search form data that lacks one of the three entries.
MalformedSearchForms ==
    [author : FormAuthors, genre : FormGenres]
        \cup [title : {<<>>, <<122>>}, genre : FormGenres]
        \cup [title : {<<>>, <<122>>}, author : FormAuthors]

\* Themes that the table lacks: a name no object has, a name css inherits,
\* and the theme of form data without one.
UnknownThemes == {"dusk", "constructor", undefined}

\* The search form data submitted, malformed or not.
AnySearchForms ==
    MalformedSearchForms \cup [title : {<<>>}, author : {"any"}, genre : FormGenres]

\* The handlers of the two forms with any form data, the handlers that
\* open their overlays and the settings cancel handler.
NextMalformed ==
    \/ Startup
    \/ handleSearchButtonClick
    \/ handleSettingsButtonClick
    \/ handleSettingsCancelClick
    \/ \E filters \in AnySearchForms : handleFilterFormSubmit(filters)
    \/ \E theme \in FormThemes \cup UnknownThemes : updateDarkLightMode(theme)

SpecMalformed == Init /\ [][NextMalformed]_vars

\* ============================================================== claims
Ready == phase = "ready"

\* The previews of the books of m, in the order of m.
PreviewsOf(m) == [k \in 1..Len(m) |-> createPreview(Book(m[k]))]

\* s is an initial segment of t.
IsPrefix(s, t) == Len(s) <= Len(t) /\ \A k \in 1..Len(s) : s[k] = t[k]

\* C1: the rendered list is a prefix of the current result set in original
\* order: no book is rendered twice and none is skipped.
C1_RenderedIsPrefix ==
    Ready => IsPrefix(listItems, PreviewsOf(matches))

\* Every book of the result set has its preview in the rendered list.
AllRendered ==
    \A k \in 1..Len(matches) :
        \E j \in 1..Len(listItems) : listItems[j] = createPreview(Book(matches[k]))

\* C2: the "show more" button is disabled exactly when no book of the
\* current result set remains unrendered.
C2_DisabledIffAllRendered ==
    Ready => (listButton.disabled <=> AllRendered)

\* C3: the window [start, end) of every slice of the result set has
\* 0 <= start and end <= n, n the length of the result set.
C3_WindowWithinBounds ==
    Ready => (0 <= lastSlice.start /\ lastSlice.end <= Len(matches))

\* C4: every render pass appends at most pageSize previews.
C4_AtMostPageSizeAppended ==
    Ready => lastSlice.extracted <= BOOKS_PER_PAGE

\* C5: after every render pass the remaining count on the button is
\* max(0, n - page * pageSize), and the button is disabled exactly when
\* that count is 0.
C5_RemainingCount ==
    Ready =>
        /\ listButton.remaining = Max(0, Len(matches) - page * BOOKS_PER_PAGE)
        /\ listButton.disabled <=> (listButton.remaining = 0)

\* C5 witness: a filtered result set, one "show more" click later, with
\* books still remaining.
C5_Witness ==
    /\ Ready /\ lastSubmit # <<>> /\ page = 2
    /\ listButton.remaining > 0
    /\ listButton.remaining = Len(matches) - 2 * BOOKS_PER_PAGE

\* C6: once the remaining count is zero, a further run of the "show more"
\* handler appends no preview and leaves the button at 0 remaining,
\* disabled.
C6_ShowMoreAfterExhaustion ==
    [][ (Ready /\ listButton.remaining = 0 /\ page' = page + 1) =>
            /\ listItems' = listItems
            /\ listButton'.remaining = 0
            /\ listButton'.disabled ]_vars

\* C6 witness: the handler has run on a non-empty result set whose
\* remaining count was already zero before that run.
C6_Witness ==
    /\ Ready /\ page >= 2 /\ Len(matches) > 0
    /\ Len(matches) <= (page - 1) * BOOKS_PER_PAGE
    /\ listButton.remaining = 0

\* The first min(pageSize, n) previews of result set m.
FirstWindow(m) == SubSeq(PreviewsOf(m), 1, Min(BOOKS_PER_PAGE, Len(m)))

\* C7: after any filter submission the page is 1 and the rendered list is
\* exactly the first min(pageSize, n) books of the new result set.
C7_SubmitResetsToFirstWindow ==
    [][ (\E filters \in SearchForms : handleFilterFormSubmit(filters)) =>
            /\ page' = 1
            /\ listItems' = FirstWindow(matches') ]_vars

\* C7 witness: a submission has left a result set longer than one page,
\* other than the full list, rendered as its first window on page 1.
C7_Witness ==
    /\ Ready /\ lastSubmit # <<>> /\ page = 1
    /\ matches # books /\ Len(matches) > BOOKS_PER_PAGE
    /\ Len(listItems) = BOOKS_PER_PAGE

\* t occurs in s as a contiguous run when letter case is ignored.
ContainsIgnoringCase(s, t) ==
    \E k \in 0..(Len(s) - Len(t)) :
        \A j \in 1..Len(t) : ToLowerCase(<<s[k + j]>>) = ToLowerCase(<<t[j]>>)

\* The three predicates of the filter contract for title text `text`.
Satisfies(book, text, author, genre) ==
    /\ text = <<>> \/ ContainsIgnoringCase(book.title, text)
    /\ author = "any" \/ book.author = author
    /\ genre = "any" \/ \E k \in DOMAIN book.genres : book.genres[k] = genre

\* r holds exactly the books of bs that satisfy the predicates, in the
\* order of bs: each element of r lies in bs at the position its reference
\* names, these positions increase, each element satisfies the predicates
\* and r has as many elements as bs has satisfying ones.
IsSelection(r, bs, text, author, genre) ==
    /\ \A k \in 1..Len(r) :
          /\ r[k] \in 1..Len(bs) /\ bs[r[k]] = r[k]
          /\ Satisfies(Book(r[k]), text, author, genre)
    /\ \A k \in 1..(Len(r) - 1) : r[k] < r[k + 1]
    /\ Len(r) = Cardinality({k \in 1..Len(bs) :
                                Satisfies(Book(bs[k]), text, author, genre)})

\* C8 as claimed: the result set is exactly the books whose title contains
\* the submitted title text (as submitted), whose author equals the selector
\* or the selector is "any", and whose genres contain the selector or the
\* selector is "any".
C8_FilterExactAsSubmitted ==
    (Ready /\ lastSubmit # <<>>) =>
        IsSelection(matches, books, lastSubmit[1].title,
                    lastSubmit[1].author, lastSubmit[1].genre)

\* C8 amended: as C8, with the submitted title text stripped of leading and
\* trailing white space before the containment test (a text that is empty
\* after stripping matches every book).
C8_FilterExactTrimmed ==
    (Ready /\ lastSubmit # <<>>) =>
        IsSelection(matches, books, Trim(lastSubmit[1].title),
                    lastSubmit[1].author, lastSubmit[1].genre)

\* C8 witness: a padded, mixed-case title text together with an author and a
\* genre selector has selected some books and rejected others.
C8_Witness ==
    /\ Ready /\ lastSubmit # <<>>
    /\ lastSubmit[1].title # Trim(lastSubmit[1].title)
    /\ lastSubmit[1].author # "any" /\ lastSubmit[1].genre # "any"
    /\ Len(matches) > 0 /\ Len(matches) < Len(books)

\* C9: the result set is an order-preserving subsequence of the full book
\* list with no book repeated, and the full book list is never modified.
C9_ResultIsSubsequence ==
    /\ [](/\ \A k \in 1..Len(matches) :
               matches[k] \in 1..Len(books) /\ books[matches[k]] = matches[k]
          /\ \A k \in 1..(Len(matches) - 1) : matches[k] < matches[k + 1])
    /\ [][books' = books]_vars

\* C9 witness: a proper, non-empty subsequence after a submission and a
\* "show more" click with an overlay open.
C9_Witness ==
    /\ Ready /\ page > 1 /\ settingsOverlay
    /\ Len(matches) > 0 /\ Len(matches) < Len(books)

\* C10: after every filter submission the "no results" message is visible
\* exactly when the new result set is empty.
C10_MessageIffEmpty ==
    [][ (\E filters \in SearchForms : handleFilterFormSubmit(filters)) =>
            (listMessage' <=> Len(matches') = 0) ]_vars

\* C10 witness: a submission without matches on a non-empty book list has
\* left the message visible.
C10_Witness ==
    /\ Ready /\ lastSubmit # <<>>
    /\ listMessage /\ Len(matches) = 0 /\ Len(books) > 0

\* --------------------------------------------------------------- overlays
\* The steps of the handlers that take input.
SubmitsSearchForm == \E filters \in SearchForms : handleFilterFormSubmit(filters)
SubmitsSettingsForm ==
    \E theme \in FormThemes \cup UnknownThemes : updateDarkLightMode(theme)
ClicksListItem == \E pathArray \in ClickPaths : handleListItemClick(pathArray)

\* C11 as stated: every overlay is opened by its trigger action only
\* (search button, settings button, click on a preview) and closed by its
\* cancel action only (close action for the detail overlay); no other
\* handler changes the open state of an overlay.
C11_OnlyTriggerAndCancel ==
    [][ /\ (~searchOverlay /\ searchOverlay') => handleSearchButtonClick
        /\ (searchOverlay /\ ~searchOverlay') => handleSearchCancelClick
        /\ (~settingsOverlay /\ settingsOverlay') => handleSettingsButtonClick
        /\ (settingsOverlay /\ ~settingsOverlay') => handleSettingsCancelClick
        /\ (~listOverlay /\ listOverlay') => ClicksListItem
        /\ (listOverlay /\ ~listOverlay') => handleBookPreviewCloseClick ]_vars

\* C11 amended: every overlay is opened by its trigger action only; the
\* detail overlay is closed by its close action only; the search overlay
\* is closed by its cancel action or by the submission of the search form,
\* the settings overlay by its cancel action or by the submission of the
\* settings form; no other handler changes the open state of an overlay.
C11_TriggerCancelOrSubmit ==
    [][ /\ (~searchOverlay /\ searchOverlay') => handleSearchButtonClick
        /\ (searchOverlay /\ ~searchOverlay') =>
              (handleSearchCancelClick \/ SubmitsSearchForm)
        /\ (~settingsOverlay /\ settingsOverlay') => handleSettingsButtonClick
        /\ (settingsOverlay /\ ~settingsOverlay') =>
              (handleSettingsCancelClick \/ SubmitsSettingsForm)
        /\ (~listOverlay /\ listOverlay') => ClicksListItem
        /\ (listOverlay /\ ~listOverlay') => handleBookPreviewCloseClick ]_vars

\* C11 witness: a search form and a settings form have been submitted, the
\* search and settings overlays are closed and the detail overlay is open.
C11_Witness ==
    /\ Ready /\ lastSubmit # <<>> /\ rootStyle.dark # ""
    /\ ~searchOverlay /\ ~settingsOverlay /\ listOverlay

\* C12: in every reachable state at most one of the three overlays is
\* open.
C12_AtMostOneOpen ==
    /\ ~(searchOverlay /\ settingsOverlay)
    /\ ~(searchOverlay /\ listOverlay)
    /\ ~(settingsOverlay /\ listOverlay)

\* ---------------------------------------------------------- list clicks
\* No node of the path carries the identifier of a book.
NoBookInPath(pathArray) ==
    \A k \in 1..Len(pathArray) :
        \/ pathArray[k] = NoPreview
        \/ \A j \in 1..Len(books) : Book(books[j]).id # pathArray[k][1]

\* C13: a click on the list whose event path holds no element with the
\* identifier of a book leaves everything unchanged: the detail overlay's
\* open state and its image, title, subtitle and description, the page,
\* the result set and the rendered list, and the rest of the document.
C13_ClickWithoutBookIsNoOp ==
    [][ \A pathArray \in DetailClickPaths :
          (NoBookInPath(pathArray) /\ handleListItemClick(pathArray)) =>
              UNCHANGED << listOverlay, listDetail, page, matches, listItems,
                           listButton, listMessage, searchOverlay,
                           settingsOverlay, rootStyle, books >> ]_vars

\* C13 witness: the last click on the list found no book and returned,
\* with the detail overlay open on a book, after a show more click.
C13_Witness ==
    /\ Ready /\ outcome = "returned"
    /\ listOverlay /\ listDetail # <<>> /\ page > 1

\* The first book of the full list whose identifier is id.
FirstBookWithId(id) ==
    Book(books[CHOOSE j \in 1..Len(books) :
                  /\ Book(books[j]).id = id
                  /\ \A h \in 1..(j - 1) : Book(books[h]).id # id])

\* The detail view of the contract for the book with identifier id: its
\* image, its title, its author's display name with its year of
\* publication, its description.
ExpectedDetail(id) ==
    LET book == FirstBookWithId(id)
    IN  [ blur        |-> book.image,
          image       |-> book.image,
          title       |-> book.title,
          subtitle    |-> <<authors[book.author], PublishedYear(book.id)>>,
          description |-> book.description ]

Completed(filters) ==
    [ title  |-> IF "title" \in DOMAIN filters THEN filters.title ELSE <<>>,
      author |-> IF "author" \in DOMAIN filters THEN filters.author ELSE "any",
      genre  |-> IF "genre" \in DOMAIN filters THEN filters.genre ELSE "any" ]

\* C15: a filter submission in which a criterion is absent raises no error
\* and its result set is the selection by the remaining criteria alone.
C15_AbsentCriterionMatchesAll ==
    [][ \A filters \in MalformedSearchForms :
          handleFilterFormSubmit(filters) =>
              /\ outcome' = "done"
              /\ IsSelection(matches', books, Trim(Completed(filters).title),
                             Completed(filters).author,
                             Completed(filters).genre) ]_vars

\* ----------------------------------------------------------------- theme
\* C16: a settings submission with a theme of the theme table sets the
\* active colours to that theme's pair and closes the settings overlay;
\* in every state the active pair is that of the last submitted theme.
C16_ThemeOfLastSubmission ==
    /\ [](lastTheme # <<>> /\ lastTheme[1] \in DOMAIN css
            => rootStyle = css[lastTheme[1]])
    /\ [][ \A theme \in DOMAIN css :
              updateDarkLightMode(theme) =>
                  /\ rootStyle' = css[theme]
                  /\ ~settingsOverlay' ]_vars

\* C16 witness: the theme day has been submitted after the settings
\* overlay was open, together with the search overlay; the day pair is
\* active and only the settings overlay is closed.
C16_Witness ==
    /\ Ready /\ lastTheme = <<"day">>
    /\ rootStyle = css["day"] /\ ~settingsOverlay /\ searchOverlay

\* --------------------------------------------------------------- startup
\* C17: when the book list is absent, the module body aborts with an
\* error, no preview is rendered and no event handler is registered.
C17_AbortBeforeRenderAndListeners ==
    ~booksDefined =>
        /\ listItems = <<>>
        /\ listeners = {}
        /\ phase # "loading" => (phase = "aborted" /\ outcome = "Source required")

\* C17 witness: the module body has run without a book list.
C17_Witness ==
    ~booksDefined /\ phase = "aborted"

\* ------------------------------------------------------------------ page
\* The steps of the handlers that neither page forward nor filter.
OtherHandler ==
    \/ handleSearchButtonClick
    \/ handleSearchCancelClick
    \/ handleSettingsButtonClick
    \/ handleSettingsCancelClick
    \/ handleBookPreviewCloseClick
    \/ SubmitsSettingsForm
    \/ ClicksListItem

\* C18: the page is at least 1 in every reachable state; a show more click
\* adds exactly 1 to it, a filter submission sets it to 1, and every other
\* handler leaves it, the result set and the rendered list unchanged (each
\* stated by its contrapositive: a step without the effect is no step of
\* the handler).
C18_PageDiscipline ==
    /\ [](page >= 1)
    /\ [][ /\ page' # page + 1 => ~handleListButtonClick
           /\ page' # 1 => ~SubmitsSearchForm
           /\ << page, matches, listItems >>' # << page, matches, listItems >>
                 => ~OtherHandler ]_vars

\* C18 witness: after a filter submission, which set the page to 1, one
\* show more click has made it 2; a theme submission and a click on a
\* preview have taken place and the detail overlay has been closed again.
C18_Witness ==
    /\ Ready /\ page = 2 /\ lastSubmit # <<>>
    /\ Len(matches) < Len(books)
    /\ lastTheme # <<>> /\ listDetail # <<>> /\ ~listOverlay

\* C19: a settings submission with a theme that the theme table lacks ends
\* in an error and leaves the active colours and the settings overlay's
\* open state as they were.
C19_UnknownThemeFailsUnchanged ==
    [][ \A theme \in UnknownThemes :
          updateDarkLightMode(theme) =>
              /\ outcome' = "TypeError"
              /\ UNCHANGED << rootStyle, settingsOverlay >> ]_vars

====
